---- MODULE Spec2Model ----
(***************************************************************************)
(* A model of juce::AnimatedPosition<Behaviour>                            *)
(* (modules/juce_gui_basics/layout/juce_AnimatedPosition.h).               *)
(*                                                                         *)
(* Numbers.  A position is a double in the source; here it is an integer   *)
(* counting hundredths of a position unit.  A Time is a count of           *)
(* milliseconds, as in juce::Time.  A velocity is an exact rational        *)
(* [num, den] in position units per second.                                *)
(*                                                                         *)
(* Every operation is an operator from a working record to the working     *)
(* record the operation leaves.  A working record holds the object's       *)
(* fields, the clock reading of the call (now), the operations the         *)
(* listeners are going to call from inside positionChanged (script), and   *)
(* what the call has done so far: the positionChanged calls (calls), the   *)
(* operations listeners called re-entrantly (reacts) and the calls made    *)
(* to the behaviour (released, asked, judged).  An action applies one      *)
(* public operation, or one timer callback, to the current state.          *)
(***************************************************************************)
EXTENDS Integers, Sequences, FiniteSets, TLC

\* Bounds of the model.
MaxPos == 1
MaxReentry == 1

\* std::numeric_limits<double>::max(), the default range's bounds.
DoubleMax == 1000000

\* jmax (0.005, ...) in getSpeed, in milliseconds.
MinDragMs == 5
\* jlimit (0.001, 0.020, ...) in timerCallback, in milliseconds.
MinTickMs == 1
MaxTickMs == 20
\* startTimer (1000 / 60) is an integer division in the source.
ActivePeriodMs == 1000 \div 60
\* startTimer (100) in nudge.
NudgePeriodMs == 100

VARIABLES
    position,         \* double position
    grabbedPos,       \* double grabbedPos
    releaseVelocity,  \* double releaseVelocity
    range,            \* Range<double> range
    lastUpdate,       \* Time lastUpdate
    lastDrag,         \* Time lastDrag
    timerPeriod,      \* the private Timer base: 0 when stopped, else its period in ms
    listeners,        \* ListenerList<Listener> listeners
    behaviour,        \* Behaviour behaviour
    justStarted,      \* endDrag or nudge started the timer and it has not ticked since
    speedIn,          \* getSpeed in isolation: its arguments
    speedOut          \* getSpeed in isolation: its result

vars == <<position, grabbedPos, releaseVelocity, range, lastUpdate, lastDrag,
          timerPeriod, listeners, behaviour, justStarted,
          speedIn, speedOut>>

----------------------------------------------------------------------------
\* Exact rationals for velocities.

Abs(n) == IF n < 0 THEN -n ELSE n

RECURSIVE GCD(_, _)
GCD(a, b) == IF b = 0 THEN a ELSE GCD(b, a % b)

MkRat(n, d) ==
    LET g == GCD(Abs(n), d)
    IN  [num |-> n \div g, den |-> d \div g]

Zero == [num |-> 0, den |-> 1]

RatAbs(v) == [num |-> Abs(v.num), den |-> v.den]

RatGT(a, b) == a.num * b.den > b.num * a.den

\* The 0.2 of getSpeed, in position units per second.
SpeedThreshold == [num |-> 1, den |-> 5]

jmax(a, b) == IF a < b THEN b ELSE a

jlimit(lo, hi, v) == IF v < lo THEN lo ELSE IF hi < v THEN hi ELSE v

----------------------------------------------------------------------------
\* Input domains.

Cand == (-MaxPos)..MaxPos

DefaultRange == [start |-> -DoubleMax, end |-> DoubleMax]

LimitRanges == { [start |-> -1, end |-> 0], [start |-> 0, end |-> MaxPos] }

\* Readings of Time::getCurrentTime(): a wall clock, which may repeat a value
\* or step back.  A default-constructed Time is 0.
ClockTimes == {1000, 1004}

ListenerIds == {1, 2}

\* What a listener may do from inside positionChanged.
Reactions ==
    { [do |-> "endDrag", x |-> 0], [do |-> "beginDrag", x |-> 0],
      [do |-> "setPosition", x |-> 0], [do |-> "nudge", x |-> 1] }

\* A listener is one piece of code: it reacts the same way each time, and
\* stops calling back after at most MaxReentry calls within one operation.
Scripts == { [i \in 1..n |-> r] : r \in Reactions, n \in 0..MaxReentry }

\* With no listener registered there is nobody to call back.
ScriptsFor(ls) == IF ls = {} THEN { <<>> } ELSE Scripts

----------------------------------------------------------------------------
\* The collaborators of AnimatedPosition: Range, Timer, Behaviour.

clipValue(r, v) == jlimit(r.start, r.end, v)

stopTimer(s) == [s EXCEPT !.timerPeriod = 0]

startTimer(s, ms) == [s EXCEPT !.timerPeriod = ms]

isTimerRunning(s) == s.timerPeriod > 0

\* Any Behaviour: the position it returns (next) and its verdict on it (stop)
\* are its own choice.  Its last verdict is kept; the calls made to it are
\* recorded in the working record.
releasedWithVelocity(s, pos, vel) ==
    [s EXCEPT !.released = Append(@, [pos |-> pos, vel |-> vel])]

getNextPosition(s, oldPos, elapsed, next) ==
    [s EXCEPT !.asked = Append(@, [pos |-> oldPos, elapsed |-> elapsed,
                                   next |-> next])]

isStopped(s, newPos, stop) ==
    [s EXCEPT !.behaviour = [stopped |-> stop],
              !.judged = Append(@, [pos |-> newPos, stop |-> stop])]

----------------------------------------------------------------------------
\* AnimatedPosition.

RECURSIVE setPositionAndSendChange(_, _)

\* Mutant: the stored position is clamped into the new range at once.
setLimits_reclamps(s, newRange) ==
    [s EXCEPT !.range = newRange, !.position = jlimit(newRange.start, newRange.end, @)]

setLimits(s, newRange) == [s EXCEPT !.range = newRange]

\* Mutant: the release velocity is not reset.
beginDrag_keepsVelocity(s) == stopTimer([s EXCEPT !.grabbedPos = s.position])

\* Mutant: the timer is left running.
beginDrag_noStop(s) == [s EXCEPT !.grabbedPos = s.position, !.releaseVelocity = Zero]

beginDrag(s) ==
    stopTimer([s EXCEPT !.grabbedPos = s.position, !.releaseVelocity = Zero])

\* Mutant: the timer is started at the period of nudge.
endDrag_nudgePeriod(s) == startTimer(s, NudgePeriodMs)

endDrag(s) == startTimer(s, ActivePeriodMs)

getPosition(s) == s.position

\* Mutant: no noise threshold.
getSpeed_noThreshold(last, lastPos, now, newPos) ==
    MkRat((newPos - lastPos) * 1000, 100 * jmax(MinDragMs, now - last))

\* Mutant: the elapsed time is floored at 1 ms, not 5 ms.
getSpeed_floorOneMs(last, lastPos, now, newPos) ==
    LET elapsedMs == jmax(1, now - last)
        v == MkRat((newPos - lastPos) * 1000, 100 * elapsedMs)
    IN  IF RatGT(RatAbs(v), SpeedThreshold) THEN v ELSE Zero

getSpeed(last, lastPos, now, newPos) ==
    LET elapsedMs == jmax(MinDragMs, now - last)
        v == MkRat((newPos - lastPos) * 1000, 100 * elapsedMs)
    IN  IF RatGT(RatAbs(v), SpeedThreshold) THEN v ELSE Zero

\* Mutant: the move is published before the behaviour is told of it.
moveTo_publishFirst(s, newPos) ==
    LET now == s.now
        v == getSpeed(s.lastDrag, s.position, now, newPos)
        s1 == setPositionAndSendChange(s, newPos)
        s2 == releasedWithVelocity([s1 EXCEPT !.releaseVelocity = v], newPos, v)
    IN  [s2 EXCEPT !.lastDrag = now]

\* Mutant: the behaviour is told the clamped target and the speed towards it.
moveTo_clampedRelease(s, newPos) ==
    LET now == s.now
        clipped == clipValue(s.range, newPos)
        v == getSpeed(s.lastDrag, s.position, now, clipped)
        s1 == releasedWithVelocity([s EXCEPT !.releaseVelocity = v], clipped, v)
        s2 == [s1 EXCEPT !.lastDrag = now]
    IN  setPositionAndSendChange(s2, newPos)

moveTo(s, newPos) ==
    LET now == s.now
        v == getSpeed(s.lastDrag, s.position, now, newPos)
        s1 == releasedWithVelocity([s EXCEPT !.releaseVelocity = v], newPos, v)
        s2 == [s1 EXCEPT !.lastDrag = now]
    IN  setPositionAndSendChange(s2, newPos)

\* Mutant: a drag also starts the timer.
drag_startsTimer(s, deltaFromStartOfDrag) ==
    moveTo(startTimer(s, ActivePeriodMs), s.grabbedPos + deltaFromStartOfDrag)

\* Mutant: the delta is taken from the current position.
drag_fromPosition(s, deltaFromStartOfDrag) == moveTo(s, s.position + deltaFromStartOfDrag)

\* Mutant: a drag also stops the timer, as beginDrag does.
drag_stopsTimer(s, deltaFromStartOfDrag) ==
    moveTo(stopTimer(s), s.grabbedPos + deltaFromStartOfDrag)

drag(s, deltaFromStartOfDrag) == moveTo(s, s.grabbedPos + deltaFromStartOfDrag)

\* Mutant: the timer is started at the steady period of endDrag.
nudge_activePeriod(s, deltaFromCurrentPosition) ==
    LET s1 == startTimer(s, ActivePeriodMs)
    IN  moveTo(s1, s1.position + deltaFromCurrentPosition)

nudge(s, deltaFromCurrentPosition) ==
    LET s1 == startTimer(s, NudgePeriodMs)
    IN  moveTo(s1, s1.position + deltaFromCurrentPosition)

\* Mutant: the timer is left as it was.
setPosition_noStop(s, newPosition) == setPositionAndSendChange(s, newPosition)

\* Mutant: the timer is stopped after the listeners have been notified.
setPosition_stopsLast(s, newPosition) == stopTimer(setPositionAndSendChange(s, newPosition))

setPosition(s, newPosition) == setPositionAndSendChange(stopTimer(s), newPosition)

addListener(s, l) == [s EXCEPT !.listeners = @ \cup {l}]

removeListener(s, l) == [s EXCEPT !.listeners = @ \ {l}]

\* A listener calling back into the AnimatedPosition& it was handed.
React(s, r) ==
    LET s1 == [s EXCEPT !.script = Tail(@), !.reacts = Append(@, r)]
    IN  CASE r.do = "endDrag" -> endDrag(s1)
          [] r.do = "beginDrag" -> beginDrag(s1)
          [] r.do = "setPosition" -> setPosition(s1, r.x)
          [] r.do = "nudge" -> nudge(s1, r.x)

\* The body of one listener's positionChanged (AnimatedPosition&, double):
\* the call is recorded with the value passed and what the listener finds
\* when it looks at the object; then the listener performs the next
\* operation of the script, if any is left.
positionChanged(s, l, newPosition) ==
    LET s1 == [s EXCEPT !.calls =
                   Append(@, [listener |-> l, value |-> newPosition,
                              seen |-> getPosition(s),
                              timer |-> s.timerPeriod,
                              lastDrag |-> s.lastDrag,
                              released |-> Len(s.released)])]
    IN  IF s1.script = <<>> THEN s1 ELSE React(s1, Head(s1.script))

\* listeners.call (&Listener::positionChanged, *this, newPosition), over the
\* listeners that were registered when the call began.
RECURSIVE callListeners(_, _, _)
callListeners(s, ls, newPosition) ==
    IF ls = {} THEN s
    ELSE LET l == CHOOSE x \in ls : \A y \in ls : x <= y
         IN  callListeners(positionChanged(s, l, newPosition), ls \ {l}, newPosition)

\* Mutant: the value is stored without being clipped to the range.
setPositionAndSendChange_unclipped(s, newPosition) ==
    IF s.position # newPosition
    THEN callListeners([s EXCEPT !.position = newPosition], s.listeners, newPosition)
    ELSE s

\* Mutant: the listeners are called whether or not the value changed.
setPositionAndSendChange_always(s, newPosition) ==
    LET clipped == clipValue(s.range, newPosition)
    IN  callListeners([s EXCEPT !.position = clipped], s.listeners, clipped)

\* Mutant: the listeners are called before the new value is stored.
setPositionAndSendChange_notifyFirst(s, newPosition) ==
    LET clipped == clipValue(s.range, newPosition)
    IN  IF s.position # clipped
        THEN [callListeners(s, s.listeners, clipped) EXCEPT !.position = clipped]
        ELSE s

setPositionAndSendChange(s, newPosition) ==
    LET clipped == clipValue(s.range, newPosition)
    IN  IF s.position # clipped
        THEN callListeners([s EXCEPT !.position = clipped], s.listeners, clipped)
        ELSE s

\* Mutant: the timer is re-armed whatever isStopped says.
timerCallback_neverStops(s, next, stop) ==
    LET now == s.now
        elapsed == jlimit(MinTickMs, MaxTickMs, now - s.lastUpdate)
        s1 == getNextPosition([s EXCEPT !.lastUpdate = now], s.position, elapsed, next)
        s2 == isStopped(s1, next, stop)
    IN  setPositionAndSendChange(startTimer(s2, ActivePeriodMs), next)

\* Mutant: a tick that finds the trajectory stopped does not publish.
timerCallback_silentStop(s, next, stop) ==
    LET now == s.now
        elapsed == jlimit(MinTickMs, MaxTickMs, now - s.lastUpdate)
        s1 == getNextPosition([s EXCEPT !.lastUpdate = now], s.position, elapsed, next)
        s2 == isStopped(s1, next, stop)
    IN  IF stop THEN stopTimer(s2)
        ELSE setPositionAndSendChange(startTimer(s2, ActivePeriodMs), next)

\* Mutant: isStopped is asked about the clamped position.
timerCallback_judgesClamped(s, next, stop) ==
    LET now == s.now
        elapsed == jlimit(MinTickMs, MaxTickMs, now - s.lastUpdate)
        s1 == getNextPosition([s EXCEPT !.lastUpdate = now], s.position, elapsed, next)
        s2 == isStopped(s1, clipValue(s.range, next), stop)
        s3 == IF stop THEN stopTimer(s2) ELSE startTimer(s2, ActivePeriodMs)
    IN  setPositionAndSendChange(s3, next)

\* Mutant: the elapsed time is passed on as measured.
timerCallback_rawElapsed(s, next, stop) ==
    LET now == s.now
        elapsed == now - s.lastUpdate
        s1 == getNextPosition([s EXCEPT !.lastUpdate = now], s.position, elapsed, next)
        s2 == isStopped(s1, next, stop)
        s3 == IF stop THEN stopTimer(s2) ELSE startTimer(s2, ActivePeriodMs)
    IN  setPositionAndSendChange(s3, next)

timerCallback(s, next, stop) ==
    LET now == s.now
        elapsed == jlimit(MinTickMs, MaxTickMs, now - s.lastUpdate)
        s1 == getNextPosition([s EXCEPT !.lastUpdate = now], s.position, elapsed, next)
        newPos == next
        s2 == isStopped(s1, newPos, stop)
        s3 == IF stop THEN stopTimer(s2) ELSE startTimer(s2, ActivePeriodMs)
    IN  setPositionAndSendChange(s3, newPos)

----------------------------------------------------------------------------
\* The state machine.

\* A behaviour starts at rest.
InitBehaviour == [stopped |-> TRUE]

NoSpeedIn == [last |-> 0, lastPos |-> 0, now |-> 0, newPos |-> 0]

Init ==
    /\ position = 0
    /\ grabbedPos = 0
    /\ releaseVelocity = Zero
    /\ range = DefaultRange
    /\ lastUpdate = 0
    /\ lastDrag = 0
    /\ timerPeriod = 0
    /\ listeners = {}
    /\ behaviour = InitBehaviour
    /\ justStarted = FALSE
    /\ speedIn = NoSpeedIn
    /\ speedOut = Zero

\* The working record an operation starts from.
Start(now, script) ==
    [position |-> position, grabbedPos |-> grabbedPos,
     releaseVelocity |-> releaseVelocity, range |-> range,
     lastUpdate |-> lastUpdate, lastDrag |-> lastDrag,
     timerPeriod |-> timerPeriod, listeners |-> listeners,
     behaviour |-> behaviour,
     now |-> now, script |-> script,
     calls |-> <<>>, reacts |-> <<>>, released |-> <<>>, asked |-> <<>>,
     judged |-> <<>>]

\* A call the model follows: every position it handles lies within Cand, and
\* the listeners performed the whole script.
Followed(t) ==
    /\ t.position \in Cand
    /\ t.grabbedPos \in Cand
    /\ \A i \in 1..Len(t.released) : t.released[i].pos \in Cand
    /\ t.script = <<>>

\* endDrag or nudge was called during the call that left t, by the caller
\* (the operation o) or by a listener.
Started(t, o) ==
    \/ o \in {"endDrag", "nudge"}
    \/ \E i \in 1..Len(t.reacts) : t.reacts[i].do \in {"endDrag", "nudge"}

\* The operation o has left the working record t.
Finish(t, o) ==
    /\ Followed(t)
    /\ position' = t.position
    /\ grabbedPos' = t.grabbedPos
    /\ releaseVelocity' = t.releaseVelocity
    /\ range' = t.range
    /\ lastUpdate' = t.lastUpdate
    /\ lastDrag' = t.lastDrag
    /\ timerPeriod' = t.timerPeriod
    /\ listeners' = t.listeners
    /\ behaviour' = t.behaviour
    /\ justStarted' = IF ~isTimerRunning(t) THEN FALSE
                      ELSE IF Started(t, o) THEN TRUE
                      ELSE IF o = "tick" THEN FALSE
                      ELSE justStarted
    /\ UNCHANGED <<speedIn, speedOut>>

SetLimits(newRange) ==
    /\ Finish(setLimits(Start(0, <<>>), newRange), "setLimits")

BeginDrag ==
    /\ Finish(beginDrag(Start(0, <<>>)), "beginDrag")

Drag(d, now, script) ==
    /\ Finish(drag(Start(now, script), d), "drag")

EndDrag ==
    /\ Finish(endDrag(Start(0, <<>>)), "endDrag")

Nudge(d, now, script) ==
    /\ Finish(nudge(Start(now, script), d), "nudge")

SetPosition(x, script) ==
    /\ Finish(setPosition(Start(0, script), x), "setPosition")

AddListener(l) ==
    /\ Finish(addListener(Start(0, <<>>), l), "addListener")

RemoveListener(l) ==
    /\ Finish(removeListener(Start(0, <<>>), l), "removeListener")

\* The Timer calls timerCallback only while it is running.
TimerCallback(now, next, stop, script) ==
    /\ isTimerRunning(Start(now, script))
    /\ Finish(timerCallback(Start(now, script), next, stop), "tick")

Ranges == LimitRanges \cup {DefaultRange}

Next ==
    \/ \E r \in Ranges : SetLimits(r)
    \/ BeginDrag
    \/ \E d \in Cand, now \in ClockTimes, script \in ScriptsFor(listeners) : Drag(d, now, script)
    \/ EndDrag
    \/ \E d \in Cand, now \in ClockTimes, script \in ScriptsFor(listeners) : Nudge(d, now, script)
    \/ \E x \in Cand, script \in ScriptsFor(listeners) : SetPosition(x, script)
    \/ \E l \in ListenerIds : AddListener(l)
    \/ \E l \in ListenerIds : RemoveListener(l)
    \/ \E now \in ClockTimes, next \in Cand, stop \in BOOLEAN, script \in ScriptsFor(listeners) :
           TimerCallback(now, next, stop, script)

Spec == Init /\ [][Next]_vars

----------------------------------------------------------------------------
\* getSpeed on its own: the arguments are drawn at the start, one step applies it.

SpeedTimes == {0, 996, 1000, 2000}

SpeedPositions == {-30, 0, 5, 10, 30}

SpeedInputs ==
    [last : SpeedTimes, lastPos : SpeedPositions \ {-30}, now : SpeedTimes \ {0},
     newPos : SpeedPositions]

\* No result yet: no velocity has a zero denominator.
NoSpeed == [num |-> 0, den |-> 0]

InitSpeed ==
    /\ position = 0
    /\ grabbedPos = 0
    /\ releaseVelocity = Zero
    /\ range = DefaultRange
    /\ lastUpdate = 0
    /\ lastDrag = 0
    /\ timerPeriod = 0
    /\ listeners = {}
    /\ behaviour = InitBehaviour
    /\ justStarted = FALSE
    /\ speedIn \in SpeedInputs
    /\ speedOut = NoSpeed

GetSpeed ==
    /\ speedOut = NoSpeed
    /\ speedOut' = getSpeed(speedIn.last, speedIn.lastPos, speedIn.now, speedIn.newPos)
    /\ UNCHANGED <<position, grabbedPos, releaseVelocity, range, lastUpdate,
                   lastDrag, timerPeriod, listeners, behaviour, justStarted,
                   speedIn>>

NextSpeed == GetSpeed

SpecSpeed == InitSpeed /\ [][NextSpeed]_vars

----------------------------------------------------------------------------
\* The calls the program can make in the current state, each with the value
\* it hands to setPositionAndSendChange (cand) and the working record it
\* leaves (t).

DragCalls ==
    { c \in { [op |-> "drag", cand |-> grabbedPos + d,
               t |-> drag(Start(now, script), d)] :
                 d \in Cand, now \in ClockTimes, script \in ScriptsFor(listeners) } :
        Followed(c.t) }

NudgeCalls ==
    { c \in { [op |-> "nudge", cand |-> position + d,
               t |-> nudge(Start(now, script), d)] :
                 d \in Cand, now \in ClockTimes, script \in ScriptsFor(listeners) } :
        Followed(c.t) }

SetPositionCalls ==
    { c \in { [op |-> "setPosition", cand |-> x,
               t |-> setPosition(Start(0, script), x)] :
                 x \in Cand, script \in ScriptsFor(listeners) } :
        Followed(c.t) }

TickCalls ==
    IF ~isTimerRunning(Start(0, <<>>)) THEN {}
    ELSE { c \in { [op |-> "tick", cand |-> next,
                    t |-> timerCallback(Start(now, script), next, stop)] :
                      now \in ClockTimes, next \in Cand, stop \in BOOLEAN,
                      script \in ScriptsFor(listeners) } :
             Followed(c.t) }

WriteCalls == DragCalls \cup NudgeCalls \cup SetPositionCalls \cup TickCalls

OtherCalls ==
    { [op |-> "setLimits", cand |-> 0, t |-> setLimits(Start(0, <<>>), r)] :
        r \in Ranges }
    \cup { [op |-> "beginDrag", cand |-> 0, t |-> beginDrag(Start(0, <<>>))],
           [op |-> "endDrag", cand |-> 0, t |-> endDrag(Start(0, <<>>))] }
    \cup { [op |-> "addListener", cand |-> 0, t |-> addListener(Start(0, <<>>), l)] :
             l \in ListenerIds }
    \cup { [op |-> "removeListener", cand |-> 0,
            t |-> removeListener(Start(0, <<>>), l)] : l \in ListenerIds }

AllCalls == WriteCalls \cup OtherCalls

InRange(r, v) == r.start <= v /\ v <= r.end

\* What the listeners did from inside positionChanged during a call.
Reacted(t, dos) == \E i \in 1..Len(t.reacts) : t.reacts[i].do \in dos

\* The listeners called during a call.
Called(t) == { t.calls[i].listener : i \in 1..Len(t.calls) }

\* The timer goes from stopped to running only in a call in which endDrag or
\* nudge is called, and while it is stopped no timer callback runs.
StoppedUntilStarted ==
    timerPeriod = 0 =>
        /\ TickCalls = {}
        /\ ~ENABLED (\E now \in ClockTimes, next \in Cand, stop \in BOOLEAN,
                        script \in ScriptsFor(listeners) : TimerCallback(now, next, stop, script))
        /\ \A c \in AllCalls : isTimerRunning(c.t) => Started(c.t, c.op)

----------------------------------------------------------------------------
\* C1.  As claimed: after any public operation or timer callback, in any
\* sequence, getPosition() lies within [range.start, range.end].
C1_AlwaysInRange == InRange(range, position)

\* C1, amended.  When drag, nudge, setPosition or a timer callback returns,
\* the position lies within the range; setLimits does not clamp the stored
\* position, which can stay outside the new range until the next write.
C1_InRangeAfterWrite ==
    \A c \in WriteCalls : InRange(c.t.range, getPosition(c.t))

\* A position left outside the range by setLimits, and a drag that brings it
\* back into the range.
C1_Witness ==
    /\ ~InRange(range, position)
    /\ \E c \in DragCalls :
          /\ c.t.calls # <<>>
          /\ InRange(c.t.range, getPosition(c.t))
          /\ ~InRange(c.t.range, c.cand)


\* C2.  As claimed: setPosition(x) followed by getPosition() returns x
\* clamped into the range, and the timer is stopped when setPosition returns.
C2_SetPositionAsClaimed ==
    \A c \in SetPositionCalls :
        /\ getPosition(c.t) = clipValue(range, c.cand)
        /\ ~isTimerRunning(c.t)

\* C2, amended.  setPosition(x) followed by getPosition() returns x clamped
\* into the range unless a listener it notified wrote the position again
\* (setPosition, nudge) from inside positionChanged; the timer is stopped
\* when setPosition returns unless such a listener called endDrag or nudge;
\* and while the timer is stopped no timer callback runs, so no tick changes
\* the position until endDrag or nudge is called.
C2_SetPosition ==
    /\ \A c \in SetPositionCalls :
          /\ ~Reacted(c.t, {"setPosition", "nudge"})
                => getPosition(c.t) = clipValue(range, c.cand)
          /\ ~Reacted(c.t, {"endDrag", "nudge"}) => ~isTimerRunning(c.t)
    /\ StoppedUntilStarted

\* The timer is running, and a setPosition beyond the range moves the
\* position to the range's bound, notifies a listener and stops the timer.
C2_Witness ==
    /\ isTimerRunning(Start(0, <<>>))
    /\ \E c \in SetPositionCalls :
          /\ c.t.reacts = <<>>
          /\ c.t.calls # <<>>
          /\ c.cand # clipValue(range, c.cand)
          /\ getPosition(c.t) = clipValue(range, c.cand)
          /\ ~isTimerRunning(c.t)

\* C3.  In drag, nudge, setPosition and the timer callback, every registered
\* listener is called if and only if the clamped candidate differs from the
\* stored position, and then with the clamped candidate; when the clamped
\* candidate equals the stored position no listener is called at all.
C3_NotifiedIffChanged ==
    \A c \in WriteCalls :
        LET clipped == clipValue(range, c.cand)
        IN  /\ clipped # position
                => \A l \in listeners : \E i \in 1..Len(c.t.calls) :
                       c.t.calls[i].listener = l /\ c.t.calls[i].value = clipped
            /\ clipped = position => c.t.calls = <<>>
            /\ Called(c.t) \subseteq listeners

\* With a listener registered and the position on the range's bound, one
\* drag beyond the bound notifies nobody, another drag notifies the listener.
C3_Witness ==
    /\ listeners # {}
    /\ position = range.end
    /\ \E c \in DragCalls : c.cand > position /\ c.t.calls = <<>>
    /\ \E c \in DragCalls : c.cand < position /\ c.t.calls # <<>>

\* C4.  endDrag leaves the timer running (after beginDrag and drag as after
\* anything else); every timer callback asks the behaviour for the next
\* position exactly once; a callback whose isStopped is true leaves the timer
\* stopped, one whose isStopped is false leaves it running at the 60 Hz
\* period, unless a listener gives new input from inside positionChanged;
\* and once the timer is stopped no callback runs, and so no listener is
\* called, until endDrag or nudge is called.
C4_DragLifecycle ==
    /\ isTimerRunning(endDrag(Start(0, <<>>)))
    /\ \A d \in Cand, now \in ClockTimes :
          LET t == drag(beginDrag(Start(now, <<>>)), d)
          IN  isTimerRunning(endDrag(t))
    /\ \A c \in TickCalls :
          /\ Len(c.t.asked) = 1
          /\ c.t.asked[1].pos = position
          /\ c.t.asked[1].next = c.cand
          /\ (c.t.behaviour.stopped /\ ~Reacted(c.t, {"endDrag", "nudge"}))
                => ~isTimerRunning(c.t)
          /\ (~c.t.behaviour.stopped
                  /\ ~Reacted(c.t, {"beginDrag", "setPosition", "nudge"}))
                => c.t.timerPeriod = ActivePeriodMs
    /\ StoppedUntilStarted

\* The timer was started by endDrag, and a callback whose isStopped is true
\* moves the position, notifies a listener and stops the timer.
C4_Witness ==
    /\ justStarted
    /\ timerPeriod = ActivePeriodMs
    /\ \E c \in TickCalls :
          /\ c.t.behaviour.stopped
          /\ c.t.reacts = <<>>
          /\ c.t.calls # <<>>
          /\ ~isTimerRunning(c.t)

\* C5.  As claimed: in every reachable state the timer is running if and
\* only if the behaviour's last verdict is "not stopped" or endDrag or nudge
\* has just started the timer.
C5_RunningIffNotStopped ==
    isTimerRunning(Start(0, <<>>)) <=> (~behaviour.stopped \/ justStarted)

\* C5, amended.  If the timer is running, then endDrag or nudge started it and
\* it has not ticked since, or the last timer callback's isStopped was false.
\* The converse fails: beginDrag and setPosition stop the timer without
\* asking the behaviour.
C5_RunningOnlyIfNotStopped ==
    isTimerRunning(Start(0, <<>>)) => (~behaviour.stopped \/ justStarted)

\* The timer keeps running after a callback whose isStopped was false.
C5_Witness ==
    /\ isTimerRunning(Start(0, <<>>))
    /\ ~justStarted
    /\ ~behaviour.stopped

\* The state the claim misses: beginDrag or setPosition stopped the timer
\* while the behaviour's last verdict was "not stopped".
C5_StoppedInFlight ==
    /\ ~isTimerRunning(Start(0, <<>>))
    /\ ~behaviour.stopped

\* C6.  As claimed: nudge(delta) changes the position by exactly
\* clamp(current + delta) - current and leaves the timer running with a
\* period of 100 ms.
C6_NudgeAsClaimed ==
    \A c \in NudgeCalls :
        /\ getPosition(c.t) - position = clipValue(range, c.cand) - position
        /\ c.t.timerPeriod = NudgePeriodMs

\* C6, amended.  nudge(delta) changes the position by exactly
\* clamp(current + delta) - current unless a listener it notified wrote the
\* position again (setPosition, nudge) from inside positionChanged, and
\* leaves the timer running with a period of 100 ms unless such a listener
\* called beginDrag, setPosition or endDrag; after endDrag it runs at the
\* 60 Hz period.
C6_Nudge ==
    \A c \in NudgeCalls :
        /\ ~Reacted(c.t, {"setPosition", "nudge"})
              => getPosition(c.t) - position = clipValue(range, c.cand) - position
        /\ ~Reacted(c.t, {"beginDrag", "setPosition", "endDrag"})
              => c.t.timerPeriod = NudgePeriodMs
        /\ Reacted(c.t, {"endDrag"}) => c.t.timerPeriod = ActivePeriodMs

\* The timer is stopped, and a nudge beyond the range moves the position by
\* less than delta, notifies a listener and leaves the timer at 100 ms.
C6_Witness ==
    /\ ~isTimerRunning(Start(0, <<>>))
    /\ \E c \in NudgeCalls :
          /\ c.t.reacts = <<>>
          /\ c.t.calls # <<>>
          /\ c.cand # clipValue(range, c.cand)
          /\ getPosition(c.t) # position
          /\ c.t.timerPeriod = NudgePeriodMs

\* C7.  beginDrag twice in a row leaves exactly the state beginDrag leaves
\* once: the position unchanged, grabbedPos equal to it, releaseVelocity 0
\* and the timer stopped.
C7_BeginDragIdempotent ==
    LET once == beginDrag(Start(0, <<>>))
        twice == beginDrag(once)
    IN  /\ twice = once
        /\ getPosition(once) = position
        /\ once.grabbedPos = position
        /\ once.releaseVelocity = Zero
        /\ ~isTimerRunning(once)
        /\ once.calls = <<>>

\* A state beginDrag changes in every field it writes.
C7_Witness ==
    /\ grabbedPos # position
    /\ releaseVelocity # Zero
    /\ isTimerRunning(Start(0, <<>>))

\* C8.  setLimits replaces the range and nothing else: the stored position
\* stays, also outside the new range, no listener is called and the timer is
\* neither started nor stopped; the next write clamps into the new range.
C8_SetLimitsFrame ==
    \A r \in Ranges :
        LET t == setLimits(Start(0, <<>>), r)
        IN  /\ t = [Start(0, <<>>) EXCEPT !.range = r]
            /\ getPosition(t) = position
            /\ t.calls = <<>>
            /\ t.timerPeriod = timerPeriod
            /\ \A x \in Cand :
                  getPosition(setPosition(t, x)) = clipValue(r, x)

\* The timer is running, a listener is registered, and the position lies
\* outside a range setLimits can set.
C8_Witness ==
    /\ isTimerRunning(Start(0, <<>>))
    /\ listeners # {}
    /\ range = DefaultRange
    /\ \E r \in Ranges : ~InRange(r, position)

\* getSpeed has been applied to a move from position 0 over one second.
SpeedFromZeroOverOneSecond ==
    /\ speedOut # NoSpeed
    /\ speedIn.lastPos = 0
    /\ speedIn.now - speedIn.last = 1000

\* C9.  As claimed: the velocity estimate for a move from 0 to 0.1 over 1 s
\* is 0.1, and for a move from 0 to 0.05 over 1 s it is exactly 0.
C9_SpeedAsClaimed ==
    SpeedFromZeroOverOneSecond =>
        /\ speedIn.newPos = 10 => speedOut = [num |-> 1, den |-> 10]
        /\ speedIn.newPos = 5 => speedOut = Zero

\* C9, amended.  The velocity estimate for a move from 0 to 0.1 over 1 s is
\* exactly 0, because 0.1 does not exceed the threshold of 0.2 (an estimate
\* above it is reported as it is: 0.3 for a move from 0 to 0.3 over 1 s); for
\* a move from 0 to 0.05 over 1 s it is exactly 0.
C9_Speed ==
    SpeedFromZeroOverOneSecond =>
        /\ speedIn.newPos = 10 => speedOut = Zero
        /\ speedIn.newPos = 5 => speedOut = Zero
        /\ speedIn.newPos = 30 => speedOut = [num |-> 3, den |-> 10]

\* getSpeed has estimated the move from 0 to 0.1 over 1 s.
C9_Witness ==
    /\ SpeedFromZeroOverOneSecond
    /\ speedIn.newPos = 10
    /\ speedOut = Zero

\* C10.  beginDrag leaves the timer stopped and the position unchanged and
\* calls no listener; and while the timer is stopped no timer callback runs,
\* so no tick moves the position until endDrag or nudge starts the timer.
C10_BeginDragCancels ==
    /\ LET t == beginDrag(Start(0, <<>>))
       IN  /\ ~isTimerRunning(t)
           /\ getPosition(t) = position
           /\ t.calls = <<>>
           /\ t.reacts = <<>>
    /\ StoppedUntilStarted

\* A trajectory in flight, with a listener registered: the timer keeps
\* running after a callback whose isStopped was false and which moved the
\* position away from where the last drag began.
C10_Witness ==
    /\ isTimerRunning(Start(0, <<>>))
    /\ ~behaviour.stopped
    /\ ~justStarted
    /\ listeners # {}
    /\ position # grabbedPos
    /\ TickCalls # {}

\* C11.  endDrag changes nothing but the timer: the position and every other
\* field stay, no listener is called and the behaviour is not called; the
\* timer is left running at the 60 Hz period, 1000 / 60 ms in integer
\* arithmetic, whether it was stopped or running before.
C11_EndDragFrame ==
    LET t == endDrag(Start(0, <<>>))
    IN  /\ t = [Start(0, <<>>) EXCEPT !.timerPeriod = ActivePeriodMs]
        /\ getPosition(t) = position
        /\ t.calls = <<>>
        /\ t.released = <<>> /\ t.asked = <<>>
        /\ isTimerRunning(t)
        /\ t.timerPeriod = 1000 \div 60

\* A listener is registered, the position has moved since the drag began and
\* the timer runs at the period of nudge: endDrag re-arms it.
C11_Witness ==
    /\ listeners # {}
    /\ position # grabbedPos
    /\ timerPeriod = NudgePeriodMs
    /\ endDrag(Start(0, <<>>)).timerPeriod # timerPeriod

\* C12.  As claimed: when a write changes the value, every registered
\* listener is called with the new clamped value, and in every
\* positionChanged call getPosition() read inside the callback equals the
\* value passed to it.
C12_SeenIsPassedAsClaimed ==
    \A c \in WriteCalls :
        clipValue(range, c.cand) # position =>
            /\ \A l \in listeners : \E i \in 1..Len(c.t.calls) :
                  /\ c.t.calls[i].listener = l
                  /\ c.t.calls[i].value = clipValue(range, c.cand)
            /\ \A i \in 1..Len(c.t.calls) : c.t.calls[i].seen = c.t.calls[i].value

\* C12, amended.  When a write changes the value, the new position is stored
\* before any listener runs: the first listener called is handed the clamped
\* value and reads it from getPosition().  Every registered listener is
\* called with the clamped value.  If no listener writes the position
\* (setPosition, nudge) from inside positionChanged, every registered
\* listener is called exactly once and each reads from getPosition() the
\* value passed to it; after such a re-entrant write, the listeners still to
\* be called are handed the older value while getPosition() has moved on.
C12_StoredBeforeNotified ==
    \A c \in WriteCalls :
        LET clipped == clipValue(range, c.cand)
            n == Len(c.t.calls)
        IN  clipped # position =>
                /\ listeners # {} =>
                      /\ n > 0
                      /\ c.t.calls[1].value = clipped
                      /\ c.t.calls[1].seen = clipped
                /\ \A l \in listeners : \E i \in 1..n :
                      c.t.calls[i].listener = l /\ c.t.calls[i].value = clipped
                /\ ~Reacted(c.t, {"setPosition", "nudge"}) =>
                      /\ n = Cardinality(listeners)
                      /\ \A i \in 1..n :
                            /\ c.t.calls[i].value = clipped
                            /\ c.t.calls[i].seen = clipped
                      /\ getPosition(c.t) = clipped

\* Two listeners are registered, and a write beyond the range changes the
\* value: each is called once with the clamped value and reads it back.
C12_Witness ==
    /\ Cardinality(listeners) = 2
    /\ \E c \in WriteCalls :
          /\ c.cand # clipValue(range, c.cand)
          /\ clipValue(range, c.cand) # position
          /\ c.t.reacts = <<>>
          /\ Len(c.t.calls) = 2
          /\ \A i \in 1..2 : c.t.calls[i].seen = clipValue(range, c.cand)

\* C13.  The velocity estimate is v = (newPos - lastPos) / max(0.005 s,
\* now - last), reported as exactly 0 when |v| <= 0.2 and as v otherwise; the
\* divisor is 0.005 s when now equals or precedes last.  With positions in
\* hundredths and times in ms, v = 10 * (newPos - lastPos) / elapsedMs.
C13_SpeedFormula ==
    speedOut # NoSpeed =>
        LET gap == speedIn.now - speedIn.last
            elapsedMs == IF gap > 5 THEN gap ELSE 5
            tenths == 10 * (speedIn.newPos - speedIn.lastPos)
            noise == 5 * Abs(tenths) <= elapsedMs
        IN  /\ noise => speedOut = Zero
            /\ ~noise =>
                  /\ speedOut.den > 0
                  /\ speedOut.num * elapsedMs = tenths * speedOut.den
                  /\ speedOut # Zero
            /\ gap <= 0 => speedOut \in {Zero, MkRat(tenths, 5)}

\* getSpeed has estimated a move whose clock reading precedes the last one,
\* and reports the move divided by 0.005 s.
C13_Witness ==
    /\ speedOut # NoSpeed
    /\ speedIn.now < speedIn.last
    /\ speedOut # Zero
    /\ speedOut = MkRat(10 * (speedIn.newPos - speedIn.lastPos), 5)

\* getSpeed has estimated a move of exactly 0.2 units per second, and
\* reports 0.
C13_WitnessAtThreshold ==
    /\ speedOut = Zero
    /\ speedIn.now - speedIn.last = 1000
    /\ speedIn.newPos - speedIn.lastPos = 20

\* The timer period a tick has set by the time it publishes: what the first
\* listener called finds, or what the tick leaves when it calls no listener.
TickDecision(t) == IF t.calls = <<>> THEN t.timerPeriod ELSE t.calls[1].timer

\* C14.  Every timer callback asks isStopped exactly once, about the position
\* getNextPosition returned (before clamping); it stops the timer when the
\* answer is true and re-arms it at the 60 Hz period when it is false; and in
\* both cases it clamps that position and publishes it: the clamped value is
\* stored, and if it differs from the stored position every registered
\* listener is called with it.  What the timer and the position are when the
\* callback returns is the tick's doing unless a listener called back.
C14_TickPublishes ==
    \A c \in TickCalls :
        LET t == c.t
            clipped == clipValue(range, c.cand)
        IN  /\ Len(t.asked) = 1 /\ t.asked[1].next = c.cand
            /\ Len(t.judged) = 1 /\ t.judged[1].pos = c.cand
            /\ t.judged[1].stop => TickDecision(t) = 0
            /\ ~t.judged[1].stop => TickDecision(t) = ActivePeriodMs
            /\ t.reacts = <<>> => t.timerPeriod = TickDecision(t)
            /\ clipped # position =>
                  \A l \in listeners : \E i \in 1..Len(t.calls) :
                      /\ t.calls[i].listener = l
                      /\ t.calls[i].value = clipped
            /\ clipped # position /\ listeners # {} => t.calls[1].seen = clipped
            /\ ~Reacted(t, {"setPosition", "nudge"}) => getPosition(t) = clipped

\* The timer is running with a listener registered, and a tick whose next
\* position lies beyond the range and counts as stopped stores the range's
\* bound, notifies the listener and leaves the timer stopped.
C14_Witness ==
    /\ isTimerRunning(Start(0, <<>>))
    /\ listeners # {}
    /\ \E c \in TickCalls :
          /\ c.t.judged[1].stop
          /\ c.t.judged[1].pos # clipValue(range, c.cand)
          /\ clipValue(range, c.cand) # position
          /\ c.t.reacts = <<>>
          /\ c.t.calls # <<>>
          /\ getPosition(c.t) = clipValue(range, c.cand)
          /\ ~isTimerRunning(c.t)

\* C15.  The elapsed time every timer callback passes to getNextPosition lies
\* within [1 ms, 20 ms]: it is the time since lastUpdate when that lies
\* within the interval, 1 ms when it is shorter, zero or negative, and 20 ms
\* when it is longer.  The callback sets lastUpdate to its clock reading;
\* endDrag and nudge leave lastUpdate alone, so the first tick after them
\* measures from the last tick before them (or from Time() if there was none).
C15_ElapsedWithinLimits ==
    /\ \A c \in TickCalls :
          LET gap == c.t.now - lastUpdate
              e == c.t.asked[1].elapsed
          IN  /\ 1 <= e /\ e <= 20
              /\ (1 <= gap /\ gap <= 20) => e = gap
              /\ gap < 1 => e = 1
              /\ gap > 20 => e = 20
              /\ c.t.asked[1].pos = position
              /\ c.t.lastUpdate = c.t.now
    /\ endDrag(Start(0, <<>>)).lastUpdate = lastUpdate
    /\ \A c \in NudgeCalls : c.t.lastUpdate = lastUpdate

\* endDrag or nudge has just started the timer and no tick has ever run: the
\* first tick measures from Time() and passes 20 ms.
C15_Witness ==
    /\ justStarted
    /\ lastUpdate = 0
    /\ \E c \in TickCalls :
          /\ c.t.now - lastUpdate > MaxTickMs
          /\ c.t.asked[1].elapsed = MaxTickMs

\* The timer has been restarted after a tick, and the next tick reads a clock
\* value earlier than that tick's: it passes 1 ms.
C15_WitnessClockBack ==
    /\ justStarted
    /\ lastUpdate > 0
    /\ \E c \in TickCalls :
          /\ c.t.now < lastUpdate
          /\ c.t.asked[1].elapsed = MinTickMs

\* The nudges listeners made from inside positionChanged during a call.
NudgeReacts(t) == { i \in 1..Len(t.reacts) : t.reacts[i].do = "nudge" }

\* C16.  Each drag or nudge call estimates the velocity from the lastDrag and
\* position it finds, hands it to releasedWithVelocity, sets lastDrag to the
\* clock reading, and only then clamps and publishes: releasedWithVelocity
\* is called exactly once per drag or nudge (once more for each nudge a
\* listener makes from inside positionChanged), and every listener called
\* finds lastDrag updated and a behaviour that has received the
\* releasedWithVelocity call of this move.
C16_MoveOrder ==
    \A c \in DragCalls \cup NudgeCalls :
        LET t == c.t
        IN  /\ Len(t.released) = 1 + Cardinality(NudgeReacts(t))
            /\ t.released[1].pos = c.cand
            /\ t.released[1].vel = getSpeed(lastDrag, position, t.now, c.cand)
            /\ t.lastDrag = t.now
            /\ \A i \in 1..Len(t.calls) :
                  /\ t.calls[i].released >= 1
                  /\ t.calls[i].lastDrag = t.now
            /\ t.calls # <<>> => t.calls[1].released = 1
            /\ t.reacts = <<>> => t.releaseVelocity = t.released[1].vel

\* A listener is registered, and a nudge at a new clock reading with a
\* non-zero velocity is published: the listener finds the behaviour told.
C16_Witness ==
    /\ listeners # {}
    /\ \E c \in NudgeCalls :
          /\ c.t.now # lastDrag
          /\ c.t.reacts = <<>>
          /\ c.t.calls # <<>>
          /\ c.t.calls[1].released = 1
          /\ c.t.released[1].vel # Zero

\* What listeners may do during a drag session without ending it: nothing, or
\* endDrag, which only starts the timer.
SessionScripts ==
    { sc \in ScriptsFor(listeners) : \A i \in 1..Len(sc) : sc[i].do = "endDrag" }

\* C17.  beginDrag captures the position as grabbedPos, and drag does not
\* change grabbedPos.  With the range fixed and no tick, nudge or setPosition
\* run, the position after drag(d) is clamp(grabbedPos + d): after beginDrag,
\* drag(d1) then drag(d2) ends at clamp(grabbedPos + d2), the position
\* drag(d2) alone ends at.  In any state, drag(d) ends at
\* clamp(grabbedPos + d) unless a listener writes the position from inside
\* positionChanged.
C17_DragAbsolute ==
    /\ \A d1 \in Cand, d2 \in Cand, now1 \in ClockTimes, now2 \in ClockTimes,
          sc \in SessionScripts :
          LET t0 == beginDrag(Start(0, <<>>))
              t1 == drag([t0 EXCEPT !.now = now1, !.script = sc], d1)
              t2 == drag([t1 EXCEPT !.now = now2], d2)
              alone == drag([t0 EXCEPT !.now = now2], d2)
          IN  /\ t0.grabbedPos = position
              /\ t1.script = <<>> =>
                    /\ getPosition(t1) = clipValue(range, position + d1)
                    /\ t2.grabbedPos = position
                    /\ getPosition(t2) = clipValue(range, position + d2)
                    /\ getPosition(t2) = getPosition(alone)
    /\ \A c \in DragCalls :
          /\ ~Reacted(c.t, {"setPosition", "nudge"})
                => getPosition(c.t) = clipValue(range, c.cand)
          /\ ~Reacted(c.t, {"beginDrag"}) => c.t.grabbedPos = grabbedPos

\* A drag session under way: the timer is stopped, a drag has moved the
\* position away from grabbedPos, and a further drag ends where its delta
\* from grabbedPos says, not where the same delta from the position would.
C17_Witness ==
    /\ ~isTimerRunning(Start(0, <<>>))
    /\ releaseVelocity # Zero
    /\ position # grabbedPos
    /\ InRange(range, grabbedPos)
    /\ \E d \in Cand : \E now \in ClockTimes :
          LET t == drag(Start(now, <<>>), d)
          IN  /\ getPosition(t) = clipValue(range, grabbedPos + d)
              /\ getPosition(t) # clipValue(range, position + d)

\* C18.  The position drag and nudge hand to releasedWithVelocity is the
\* target before clamping (grabbedPos + delta, position + delta), and the
\* velocity is the one from the stored position to that target over max(5 ms,
\* time since lastDrag), 0 when it does not exceed 0.2; the stored
\* releaseVelocity is the same value.
C18_ReleasedUnclamped ==
    \A c \in DragCalls \cup NudgeCalls :
        LET told == c.t.released[1]
            gap == c.t.now - lastDrag
            elapsedMs == IF gap > 5 THEN gap ELSE 5
            tenths == 10 * (c.cand - position)
            noise == 5 * Abs(tenths) <= elapsedMs
        IN  /\ told.pos = c.cand
            /\ noise => told.vel = Zero
            /\ ~noise =>
                  /\ told.vel.den > 0
                  /\ told.vel.num * elapsedMs = tenths * told.vel.den
            /\ c.t.reacts = <<>> => c.t.releaseVelocity = told.vel

\* The position is pinned at the range's upper bound with a listener
\* registered, and a drag beyond the bound hands the behaviour a position
\* outside the range and a non-zero velocity, while the stored position
\* stays and no listener is called.
C18_Witness ==
    /\ listeners # {}
    /\ position = range.end
    /\ \E c \in DragCalls :
          /\ ~InRange(range, c.t.released[1].pos)
          /\ c.t.released[1].vel # Zero
          /\ c.t.calls = <<>>
          /\ getPosition(c.t) = position

\* The timer period an operation sets itself: 0 for a stop.
OwnTimer(c) ==
    CASE c.op = "setPosition" -> 0
      [] c.op = "nudge" -> NudgePeriodMs
      [] c.op = "tick" -> IF c.t.judged[1].stop THEN 0 ELSE ActivePeriodMs

\* The timer period the operation a listener calls sets.
ReactTimer(r) ==
    CASE r.do \in {"beginDrag", "setPosition"} -> 0
      [] r.do = "endDrag" -> ActivePeriodMs
      [] r.do = "nudge" -> NudgePeriodMs

\* C19.  setPosition, nudge and the timer callback set the timer before they
\* notify: the first listener called finds the timer as the operation set
\* it.  If no listener calls back, that is how the operation leaves the
\* timer; if listeners call endDrag, nudge, beginDrag or setPosition from
\* inside positionChanged, the timer is left as the last of those calls set
\* it: stopped by a beginDrag or setPosition made during a tick or a nudge,
\* running by an endDrag or nudge made during setPosition.
C19_ListenerDecidesTimer ==
    \A c \in SetPositionCalls \cup NudgeCalls \cup TickCalls :
        LET t == c.t
            n == Len(t.reacts)
        IN  /\ t.calls # <<>> => t.calls[1].timer = OwnTimer(c)
            /\ n = 0 => t.timerPeriod = OwnTimer(c)
            /\ n > 0 => t.timerPeriod = ReactTimer(t.reacts[n])

\* The timer is running with a listener registered: a tick that re-arms the
\* timer is left stopped by a listener's beginDrag, and a setPosition is left
\* running by a listener's endDrag.
C19_Witness ==
    /\ isTimerRunning(Start(0, <<>>))
    /\ listeners # {}
    /\ \E c \in TickCalls :
          /\ ~c.t.judged[1].stop
          /\ c.t.calls[1].timer = ActivePeriodMs
          /\ c.t.reacts # <<>> /\ c.t.reacts[1].do = "beginDrag"
          /\ ~isTimerRunning(c.t)
    /\ \E c \in SetPositionCalls :
          /\ c.t.calls[1].timer = 0
          /\ c.t.reacts # <<>> /\ c.t.reacts[1].do = "endDrag"
          /\ isTimerRunning(c.t)

\* The operations that call stopTimer or startTimer.
TimerOps == {"beginDrag", "setPosition", "endDrag", "nudge", "tick"}

\* After the call that left t, some timer callback moves the position.
TickCanMove(t) ==
    \E now \in ClockTimes, next \in Cand :
        LET u == timerCallback([t EXCEPT !.now = now, !.calls = <<>>], next, FALSE)
        IN  getPosition(u) # getPosition(t)

\* C20.  The timer period changes only in a call to beginDrag, setPosition,
\* endDrag, nudge or the timer callback, made by the caller or by a listener
\* from inside positionChanged: drag leaves the timer as it was unless a
\* listener makes such a call, and setLimits, getPosition, addListener and
\* removeListener always do.  beginDrag and setPosition never start the
\* timer and endDrag and nudge never stop it.  After a drag made while the
\* timer is running the timer still runs, and a timer callback can move the
\* position.
C20_TimerFrame ==
    /\ \A c \in AllCalls :
          c.t.timerPeriod # timerPeriod => (c.op \in TimerOps \/ c.t.reacts # <<>>)
    /\ \A c \in DragCalls : c.t.reacts = <<>> => c.t.timerPeriod = timerPeriod
    /\ \A c \in OtherCalls :
          c.op \in {"setLimits", "addListener", "removeListener"} =>
              /\ c.t.timerPeriod = timerPeriod
              /\ c.t.reacts = <<>>
    /\ getPosition(Start(0, <<>>)) = position
    /\ ~isTimerRunning(beginDrag(Start(0, <<>>)))
    /\ \A c \in SetPositionCalls : c.t.reacts = <<>> => ~isTimerRunning(c.t)
    /\ isTimerRunning(endDrag(Start(0, <<>>)))
    /\ \A c \in NudgeCalls : c.t.reacts = <<>> => isTimerRunning(c.t)
    /\ \A c \in DragCalls :
          (c.t.reacts = <<>> /\ isTimerRunning(Start(0, <<>>))) =>
              /\ isTimerRunning(c.t)
              /\ TickCanMove(c.t)

\* A trajectory in flight with a listener registered, and a drag without
\* beginDrag that moves the position and notifies the listener: the timer
\* keeps its period and a tick can move the position again.
C20_Witness ==
    /\ isTimerRunning(Start(0, <<>>))
    /\ ~justStarted
    /\ listeners # {}
    /\ \E c \in DragCalls :
          /\ c.t.reacts = <<>>
          /\ c.t.calls # <<>>
          /\ getPosition(c.t) # position
          /\ c.t.timerPeriod = timerPeriod
          /\ TickCanMove(c.t)

====
